---- MODULE Spec2Model ----
(***************************************************************************)
(* Results and standings aggregation of the F1 data platform.              *)
(*                                                                         *)
(* The model follows f1_pipeline/transformers/analytics_transformer.py:    *)
(* the raw tables filled by the extractor, the race result builder         *)
(* (transform_grand_prix_results), the standings fold                      *)
(* (transform_championship_standings) and save_analytics_data, which       *)
(* appends both outputs to the analytics tables through                    *)
(* LocalDatabaseProvider.insert_dataframe.                                 *)
(*                                                                         *)
(* Abstractions: names and team names are not carried (a driver is its      *)
(* driver_number, a grand prix is its meeting_name); created_at, dnf and   *)
(* dns are pass-through columns and are left out; of the columns added by  *)
(* _add_championship_context only total_season_points is carried.         *)
(***************************************************************************)
EXTENDS Integers, Sequences, FiniteSets, TLC

\* ---------------------------------------------------------------- bounds
NumDrivers == 3
MaxRaces == 2
MaxRows == 3
MaxSaves == 2
FieldRows == 4
MaxPosition == 20
MaxHashResidue == 2
MaxEvents == 1
MaxReadings == 2
MaxRetries == 3
MaxMeetings == 1
MaxEndpoints == 2
MaxCalls == 6

\* ------------------------------------------------------------- constants
NULL == 0 - 1
NoColumn == 0 - 2
BonusThreshold == 10
PodiumPlaces == 3

Drivers == 1..NumDrivers
Slots == 1..MaxRaces
Years == {2023}
Seasons == {2023, 2024}

VARIABLES
    round_col,                      \* raw_sessions carries a race_round column
    raw_sessions,                   \* rows of the raw tables
    raw_session_result,
    raw_laps,
    raw_drivers,
    raw_starting_grid,
    schema,                         \* per analytics table: "absent", "pk", "nopk"
    grand_prix_results,             \* analytics tables, rows in rowid order
    grand_prix_performance,
    driver_championship_standings,
    gp_df,                          \* last frame returned by transform_grand_prix_results
    standings_df,                   \* last frame returned by transform_championship_standings
    results,                        \* last dictionary returned by save_analytics_data
    n_saves,
    calc_position,                  \* arguments of a call of _calculate_points
    calc_given,                     \* has_fastest_lap is passed (it defaults to False)
    calc_has_fastest_lap,
    calc_points,                    \* the value returned, NULL before the call
    py_hash,                        \* hash() of the grand prix names in this interpreter
    feature_round,                  \* race_round of the features last created, per grand prix
    season_pc,                      \* per season: the step its save_analytics_data call is at
    season_results,                 \* per season: the dictionary of the call
    season_standings,               \* per season: the standings frame of the call
    circuit_short_name,             \* the circuit of the race whose context is built
    race_control,                   \* outcome of the race-control query: raises, or the counts of its rows
    weather,                        \* outcome of the weather query: raises, or its rows
    race_features,                  \* the frame of context records, empty before it is built
    max_retries,                    \* OpenF1Client.max_retries
    rate_limit_delay,               \* OpenF1Client.rate_limit_delay, in units of time
    attempt,                        \* the loop variable of _make_request
    http_log,                       \* the sleeps and the HTTP requests of the call, in order
    request_state,                  \* where the call is: sleep, get, returned, raised
    response,                       \* the value the call returned, NULL when none
    gen_pc,                         \* where get_all_data_for_year is: meetings, sessions, endpoints, stopped, raised
    n_meetings,                     \* rows of meetings_df
    fetch_idx,                      \* the meeting or session the generator is at
    endpoint_idx,                   \* the endpoint of the session the generator is at
    api_log,                        \* the get_data calls of the generator with their outcome, in order
    yield_log,                      \* the endpoint names of the items yielded, in order
    stats,                          \* the statistics dictionary of extract_year_data
    extract_pc,                     \* extract_year_data: running, returned, raised
    connection,                     \* LocalDatabaseProvider.connection: NULL for None, else the connection object
    n_opened,                       \* the number of sqlite3.connect calls so far; it names the objects
    conn_log                        \* the connect and close calls with the value returned, in order

vars == <<round_col, raw_sessions, raw_session_result, raw_laps, raw_drivers,
          raw_starting_grid, schema, grand_prix_results, grand_prix_performance,
          driver_championship_standings, gp_df, standings_df, results, n_saves,
          calc_position, calc_given, calc_has_fastest_lap, calc_points,
          py_hash, feature_round, season_pc, season_results, season_standings,
          circuit_short_name, race_control, weather, race_features,
          max_retries, rate_limit_delay, attempt, http_log, request_state, response,
          gen_pc, n_meetings, fetch_idx, endpoint_idx, api_log, yield_log, stats, extract_pc,
          connection, n_opened, conn_log>>

context_vars == <<circuit_short_name, race_control, weather, race_features>>

client_vars == <<max_retries, rate_limit_delay, attempt, http_log, request_state, response>>

extract_vars == <<gen_pc, n_meetings, fetch_idx, endpoint_idx, api_log, yield_log, stats, extract_pc>>

provider_vars == <<connection, n_opened, conn_log>>

season_vars == <<season_pc, season_results, season_standings>>

round_vars == <<py_hash, feature_round>>

calc_vars == <<calc_position, calc_given, calc_has_fastest_lap, calc_points>>

raw_vars == <<raw_sessions, raw_session_result, raw_laps, raw_drivers, raw_starting_grid>>

platform_vars == <<round_col, raw_sessions, raw_session_result, raw_laps, raw_drivers,
                   raw_starting_grid, schema, grand_prix_results, grand_prix_performance,
                   driver_championship_standings, gp_df, standings_df, results, n_saves>>

\* ------------------------------------------------------------ sequences
RECURSIVE SumSeq(_)
SumSeq(s) == IF s = <<>> THEN 0 ELSE Head(s) + SumSeq(Tail(s))

Range(s) == {s[i] : i \in 1..Len(s)}

\* a comparison with NaN is False
LeNaN(a, n) == a # NULL /\ a <= n

\* Sorting works on pairs <<key, row>> with an integer key.  The insertion
\* puts a pair after every pair whose key is not greater: the sort is stable.
RECURSIVE InsertByKey(_, _)
InsertByKey(s, x) ==
    IF s = <<>> THEN <<x>>
    ELSE IF x[1] < Head(s)[1] THEN <<x>> \o s
    ELSE <<Head(s)>> \o InsertByKey(Tail(s), x)

RECURSIVE StableSortPairs(_)
StableSortPairs(s) ==
    IF s = <<>> THEN <<>>
    ELSE InsertByKey(StableSortPairs(SubSeq(s, 1, Len(s) - 1)), s[Len(s)])

Rows(pairs) == [i \in 1..Len(pairs) |-> pairs[i][2]]

\* the rows of a finite set in ascending order of an injective integer key
RECURSIVE SetToPairs(_)
SetToPairs(S) ==
    IF S = {} THEN <<>>
    ELSE LET m == CHOOSE x \in S : \A y \in S : x[1] <= y[1]
         IN  <<m>> \o SetToPairs(S \ {m})

\* ------------------------------------------------------ points calculator
points_system(position) ==
    CASE position = 1 -> 25 [] position = 2 -> 18 [] position = 3 -> 15
      [] position = 4 -> 12 [] position = 5 -> 10 [] position = 6 -> 8
      [] position = 7 -> 6  [] position = 8 -> 4  [] position = 9 -> 2
      [] position = 10 -> 1 [] OTHER -> 0

\* a calculator whose bonus does not look at the position
CalculatePointsAnyPosition(position, has_fastest_lap) ==
    LET points == points_system(position)
    IN  IF has_fastest_lap THEN points + 1 ELSE points

CalculatePoints(position, has_fastest_lap) ==
    LET points == points_system(position)
    IN  IF has_fastest_lap /\ LeNaN(position, BonusThreshold)
        THEN points + 1 ELSE points

\* ------------------------------------------------------------ raw queries
RaceSessions(year) == {s \in raw_sessions : s.year = year}

GetSessionResults(session_key) ==
    {r \in raw_session_result : r.session_key = session_key}

GetSessionDrivers(session_key) ==
    {r.driver_number : r \in {x \in raw_drivers : x.session_key = session_key}}

GetStartingGrid(session_key) ==
    {r \in raw_starting_grid : r.session_key = session_key}

\* MIN(lap_duration) per driver over the non-null laps of the session
GetFastestLaps(session_key) ==
    LET laps == {l \in raw_laps : l.session_key = session_key /\ l.lap_duration # NULL}
        drv  == {l.driver_number : l \in laps}
    IN  [d \in drv |->
            CHOOSE t \in {l.lap_duration : l \in {x \in laps : x.driver_number = d}} :
                \A l \in laps : l.driver_number = d => t <= l.lap_duration]

\* _get_penalties: an empty frame with the columns driver_number and
\* penalty_seconds, whatever the session
GetPenalties(session_key) == <<>>

\* ---------------------------------------------------- race result builder
\* The record built for one row of the session results (lines 115-159).
BuildRecord(year, session, result) ==
    LET driver_number == result.driver_number
        start_pos == {g \in GetStartingGrid(session.session_key) :
                          g.driver_number = driver_number}
        starting_position ==
            IF start_pos = {} THEN NULL
            ELSE (CHOOSE g \in start_pos :
                      \A h \in start_pos : g.position <= h.position).position
        fastest_laps == GetFastestLaps(session.session_key)
        fastest_lap_time ==
            IF driver_number \in DOMAIN fastest_laps
            THEN fastest_laps[driver_number] ELSE NULL
        driver_penalties == SelectSeq(GetPenalties(session.session_key),
                                      LAMBDA p : p.driver_number = driver_number)
        total_penalty ==
            IF driver_penalties = <<>> THEN 0
            ELSE SumSeq([i \in 1..Len(driver_penalties) |->
                            driver_penalties[i].penalty_seconds])
        points == CalculatePoints(result.position,
                      fastest_lap_time # NULL /\ LeNaN(result.position, BonusThreshold))
    IN  [result_id |-> <<year, session.race_round, driver_number>>,
         date |-> session.race_date,
         year |-> year,
         grand_prix |-> session.meeting_name,
         driver_number |-> driver_number,
         starting_grid_position |-> starting_position,
         final_position |-> result.position,
         points |-> points,
         fastest_lap |-> fastest_lap_time,
         total_time_penalty |-> total_penalty,
         dsq |-> result.dsq]

\* the result rows of a session that reach line 122: results and roster are
\* not empty and the driver is on the roster
MergedResults(session) ==
    LET session_results == GetSessionResults(session.session_key)
        drivers == GetSessionDrivers(session.session_key)
    IN  IF session_results = {} \/ drivers = {} THEN {}
        ELSE {r \in session_results : r.driver_number \in drivers}

\* The loop body raises, and the except clause of line 175 returns an empty
\* frame, when
\*  - the position column of the session holds only NULLs, so that pandas
\*    reads it as None objects, and line 137 compares None <= 10 for a driver
\*    with a lap time (TypeError);
\*  - the session row has no race_round column at line 141 (KeyError).
SessionRaises(session) ==
    LET merged == MergedResults(session)
        fastest_laps == GetFastestLaps(session.session_key)
    IN  /\ merged # {}
        /\ \/ session.race_round = NoColumn
           \/ /\ \A r \in GetSessionResults(session.session_key) : r.position = NULL
              /\ \E r \in merged : r.driver_number \in DOMAIN fastest_laps

\* results_df.sort_values(["driver_number", "date"]) followed by the
\* cumulative sum of points per driver.  The records of one frame differ in
\* (driver_number, date), so the sorted order does not depend on the order
\* in which the loops appended them.
DateSpan == 2 * MaxRaces + 1

AddChampionshipContext(records) ==
    LET sorted == Rows(SetToPairs({<<r.driver_number * DateSpan + r.date, r>> : r \in records}))
        cumsum(i) == SumSeq([j \in 1..i |->
                        IF sorted[j].driver_number = sorted[i].driver_number
                        THEN sorted[j].points ELSE 0])
    IN  [i \in 1..Len(sorted) |->
            [result_id |-> sorted[i].result_id,
             date |-> sorted[i].date,
             year |-> sorted[i].year,
             grand_prix |-> sorted[i].grand_prix,
             driver_number |-> sorted[i].driver_number,
             starting_grid_position |-> sorted[i].starting_grid_position,
             final_position |-> sorted[i].final_position,
             points |-> sorted[i].points,
             fastest_lap |-> sorted[i].fastest_lap,
             total_time_penalty |-> sorted[i].total_time_penalty,
             dsq |-> sorted[i].dsq,
             total_season_points |-> cumsum(i)]]

\* transform_grand_prix_results(year): the frame it returns, <<>> when empty
TransformGrandPrixResults(year) ==
    LET race_sessions == RaceSessions(year)
        records == UNION {{BuildRecord(year, s, r) : r \in MergedResults(s)} :
                              s \in race_sessions}
    IN  IF race_sessions = {} THEN <<>>
        ELSE IF \E s \in race_sessions : SessionRaises(s) THEN <<>>
        ELSE IF records = {} THEN <<>>
        ELSE AddChampionshipContext(records)

\* ----------------------------------------------------------- standings fold
\* SELECT * FROM grand_prix_results WHERE year = ? ORDER BY date, final_position.
\* SQLite puts NULL first; the order of rows equal in (date, final_position)
\* is not specified by SQL: tiebreak, a ranking of the drivers, decides it.
PosSpan == MaxPosition + 1
DriverSpan == NumDrivers + 1

OrderKey(row, tiebreak) ==
    (row.date * PosSpan
        + (IF row.final_position = NULL THEN 0 ELSE row.final_position)) * DriverSpan
    + tiebreak[row.driver_number]

\* a query without the WHERE year = ? clause
FetchResultsAllYears(table, year, tiebreak) ==
    Rows(StableSortPairs([i \in 1..Len(table) |-> <<OrderKey(table[i], tiebreak), table[i]>>]))

FetchResults(table, year, tiebreak) ==
    LET sel == SelectSeq(table, LAMBDA r : r.year = year)
    IN  Rows(StableSortPairs([i \in 1..Len(sel) |-> <<OrderKey(sel[i], tiebreak), sel[i]>>]))

\* the rankings of the drivers that can break the ties of an ORDER BY
DriverRankings ==
    {f \in [Drivers -> 1..NumDrivers] : \A a, b \in Drivers : f[a] = f[b] => a = b}

\* every order in which the database may return the results of the year
\* (the ranking matters only when two drivers have rows equal in the key)
FetchOrders(table, year) ==
    LET sel == SelectSeq(table, LAMBDA r : r.year = year)
        tied == \E i, j \in 1..Len(sel) :
                    /\ sel[i].date = sel[j].date
                    /\ sel[i].final_position = sel[j].final_position
                    /\ sel[i].driver_number # sel[j].driver_number
    IN  IF tied THEN {FetchResults(table, year, tiebreak) : tiebreak \in DriverRankings}
        ELSE {FetchResults(table, year, [d \in Drivers |-> d])}

\* results.groupby(["date", "grand_prix"]).first().reset_index(): one row per
\* (date, grand_prix), in ascending order of the key
GroupRaces(rs) ==
    Rows(SetToPairs({<<rs[i].date * DateSpan + rs[i].grand_prix,
                       [date |-> rs[i].date, grand_prix |-> rs[i].grand_prix]>> :
                          i \in 1..Len(rs)}))

\* cumulative_points is a dict: a sequence of <<driver_number, points>> in
\* insertion order (lines 311-315)
RECURSIVE UpdateCumulative(_, _)
UpdateCumulative(cumulative_points, race_results) ==
    IF race_results = <<>> THEN cumulative_points
    ELSE LET result == Head(race_results)
             known  == \E i \in 1..Len(cumulative_points) :
                           cumulative_points[i][1] = result.driver_number
             opened == IF known THEN cumulative_points
                       ELSE Append(cumulative_points, <<result.driver_number, 0>>)
             added  == [i \in 1..Len(opened) |->
                           IF opened[i][1] = result.driver_number
                           THEN <<opened[i][1], opened[i][2] + result.points>>
                           ELSE opened[i]]
         IN  UpdateCumulative(added, Tail(race_results))

RaceResultsOf(rs, race) ==
    SelectSeq(rs, LAMBDA r : r.date = race.date /\ r.grand_prix = race.grand_prix)

\* a fold whose dict is created inside the loop over the races
CumulativeAfterReset(rs, races, k) ==
    IF k = 0 THEN <<>>
    ELSE UpdateCumulative(<<>>, RaceResultsOf(rs, races[k]))

\* cumulative_points after the first k races of the loop of line 304
RECURSIVE CumulativeAfter(_, _, _)
CumulativeAfter(rs, races, k) ==
    IF k = 0 THEN <<>>
    ELSE UpdateCumulative(CumulativeAfter(rs, races, k - 1), RaceResultsOf(rs, races[k]))

\* standings whose wins, podiums and points finishes count the race alone
RaceStandingsThisRace(rs, race, cumulative_points) ==
    [i \in 1..Len(cumulative_points) |->
        LET driver_number == cumulative_points[i][1]
            driver_results == SelectSeq(rs, LAMBDA r :
                                  r.driver_number = driver_number /\ r.date = race.date)
        IN  [driver_number |-> driver_number,
             points |-> cumulative_points[i][2],
             wins |-> Len(SelectSeq(driver_results, LAMBDA r : r.final_position = 1)),
             podiums |-> Len(SelectSeq(driver_results,
                             LAMBDA r : LeNaN(r.final_position, PodiumPlaces))),
             points_finishes |-> Len(SelectSeq(driver_results, LAMBDA r : r.points > 0))]]

\* lines 318-341: one entry per key of cumulative_points, in dict order
RaceStandings(rs, race, cumulative_points) ==
    [i \in 1..Len(cumulative_points) |->
        LET driver_number == cumulative_points[i][1]
            driver_results == SelectSeq(rs, LAMBDA r :
                                  r.driver_number = driver_number /\ r.date <= race.date)
        IN  [driver_number |-> driver_number,
             points |-> cumulative_points[i][2],
             wins |-> Len(SelectSeq(driver_results, LAMBDA r : r.final_position = 1)),
             podiums |-> Len(SelectSeq(driver_results,
                             LAMBDA r : LeNaN(r.final_position, PodiumPlaces))),
             points_finishes |-> Len(SelectSeq(driver_results, LAMBDA r : r.points > 0))]]

\* a sort without reverse=True
SortStandingsAscending(race_standings) ==
    Rows(StableSortPairs([i \in 1..Len(race_standings) |->
                              <<race_standings[i].points, race_standings[i]>>]))

\* race_standings.sort(key=lambda x: x["points"], reverse=True): a stable sort
SortStandings(race_standings) ==
    Rows(StableSortPairs([i \in 1..Len(race_standings) |->
                              <<0 - race_standings[i].points, race_standings[i]>>]))

\* a gap read at the index of the standing itself
PointsAheadNextSameIndex(race_standings, position) ==
    IF position < Len(race_standings)
    THEN race_standings[position].points - race_standings[position].points
    ELSE 0

\* lines 351-354; position counts from 1, so that the Python index position
\* is the next entry of the list
PointsAheadNext(race_standings, position) ==
    IF position < Len(race_standings)
    THEN race_standings[position].points - race_standings[position + 1].points
    ELSE 0

\* records whose position is shared by the drivers level on points
StandingRecordsSharedRank(year, race_idx, race, race_standings) ==
    LET leader_points == IF race_standings # <<>> THEN race_standings[1].points ELSE 0
    IN  [position \in 1..Len(race_standings) |->
            LET standing == race_standings[position]
            IN  [standing_id |-> <<year, race_idx + 1, standing.driver_number>>,
                 year |-> year,
                 race_round |-> race_idx + 1,
                 after_race |-> race.grand_prix,
                 driver_number |-> standing.driver_number,
                 position |-> 1 + Cardinality({j \in 1..Len(race_standings) :
                                 race_standings[j].points > standing.points}),
                 points |-> standing.points,
                 points_behind_leader |-> leader_points - standing.points,
                 points_ahead_next |->
                     IF position < Len(race_standings)
                     THEN standing.points - race_standings[position + 1].points
                     ELSE 0,
                 wins |-> standing.wins,
                 podiums |-> standing.podiums,
                 points_finishes |-> standing.points_finishes]]

\* lines 346-374: the records of one race
StandingRecords(year, race_idx, race, race_standings) ==
    LET leader_points == IF race_standings # <<>> THEN race_standings[1].points ELSE 0
    IN  [position \in 1..Len(race_standings) |->
            LET standing == race_standings[position]
            IN  [standing_id |-> <<year, race_idx + 1, standing.driver_number>>,
                 year |-> year,
                 race_round |-> race_idx + 1,
                 after_race |-> race.grand_prix,
                 driver_number |-> standing.driver_number,
                 position |-> position,
                 points |-> standing.points,
                 points_behind_leader |-> leader_points - standing.points,
                 points_ahead_next |-> PointsAheadNext(race_standings, position),
                 wins |-> standing.wins,
                 podiums |-> standing.podiums,
                 points_finishes |-> standing.points_finishes]]

RECURSIVE ConcatRaces(_, _, _, _)
ConcatRaces(year, rs, races, k) ==
    IF k = 0 THEN <<>>
    ELSE ConcatRaces(year, rs, races, k - 1)
         \o StandingRecords(year, k - 1, races[k],
                SortStandings(RaceStandings(rs, races[k], CumulativeAfter(rs, races, k))))

\* transform_championship_standings(year), rs being the rows as fetched
TransformChampionshipStandings(year, rs) ==
    IF rs = <<>> THEN <<>>
    ELSE LET races == GroupRaces(rs)
         IN  ConcatRaces(year, rs, races, Len(races))

\* ------------------------------------------------------------ persistence
\* an insert that no key rejects
InsertSucceedsAlways(mode, table_ids, df_ids) == TRUE

\* LocalDatabaseProvider.insert_dataframe(df, table, if_exists="append"):
\* to_sql creates a missing table from the frame, without any key; on a table
\* created from the schema the PRIMARY KEY rejects the whole frame when one
\* of its ids is already stored or occurs twice, and the insert returns False.
InsertSucceeds(mode, table_ids, df_ids) ==
    \/ mode # "pk"
    \/ /\ \A i, j \in 1..Len(df_ids) : df_ids[i] = df_ids[j] => i = j
       /\ \A i \in 1..Len(df_ids), j \in 1..Len(table_ids) : df_ids[i] # table_ids[j]

ModeAfterInsert(mode) == IF mode = "absent" THEN "nopk" ELSE mode

ResultId(df) == [i \in 1..Len(df) |-> df[i].result_id]
PerformanceId(df) == [i \in 1..Len(df) |-> df[i].performance_id]
StandingId(df) == [i \in 1..Len(df) |-> df[i].standing_id]

\* transform_grand_prix_performance(year): one record per session and
\* roster driver; only the key is carried
TransformGrandPrixPerformance(year) ==
    Rows(SetToPairs({<<x.session_key * DriverSpan + x.driver_number,
                       [performance_id |-> <<year, x.session_key, x.driver_number>>]>> :
                        x \in {d \in raw_drivers :
                                 \E s \in RaceSessions(year) : s.session_key = d.session_key}}))

AnalyticsTables == {"grand_prix_results", "grand_prix_performance",
                    "driver_championship_standings"}

\* ----------------------------------------------------------------- state
Empty == [d \in {} |-> 0]

\* no call of the points calculator on its own
NoCall ==
    /\ calc_position = NULL
    /\ calc_given = FALSE
    /\ calc_has_fastest_lap = FALSE
    /\ calc_points = NULL

\* no feature was created
NoFeatures ==
    /\ py_hash = [g \in Slots |-> 0]
    /\ feature_round = Empty

\* no save_analytics_data call is under way
NoSeasonCall ==
    /\ season_pc = [y \in Seasons |-> "idle"]
    /\ season_results = [y \in Seasons |-> [t \in AnalyticsTables |-> FALSE]]
    /\ season_standings = [y \in Seasons |-> <<>>]

\* no race context was built
NoContext ==
    /\ circuit_short_name = "Monaco"
    /\ race_control = [raises |-> FALSE, safety |-> 0, red |-> 0]
    /\ weather = [raises |-> FALSE, rows |-> <<>>]
    /\ race_features = <<>>

\* no request is under way
NoRequest ==
    /\ max_retries = 0
    /\ rate_limit_delay = 1
    /\ attempt = 0
    /\ http_log = <<>>
    /\ request_state = "returned"
    /\ response = NULL

\* extract_year_data is not running
NoExtraction ==
    /\ gen_pc = "stopped"
    /\ n_meetings = 0
    /\ fetch_idx = 0
    /\ endpoint_idx = 0
    /\ api_log = <<>>
    /\ yield_log = <<>>
    /\ stats = [endpoints_processed |-> 0, errors |-> 0]
    /\ extract_pc = "returned"

\* the provider as constructed
NoProvider ==
    /\ connection = NULL
    /\ n_opened = 0
    /\ conn_log = <<>>

\* nothing was extracted or saved
NoData ==
    /\ round_col = TRUE
    /\ raw_sessions = {}
    /\ raw_session_result = {}
    /\ raw_laps = {}
    /\ raw_drivers = {}
    /\ raw_starting_grid = {}
    /\ schema = [t \in AnalyticsTables |-> "absent"]
    /\ grand_prix_results = <<>>
    /\ grand_prix_performance = <<>>
    /\ driver_championship_standings = <<>>
    /\ gp_df = <<>>
    /\ standings_df = <<>>
    /\ results = [t \in AnalyticsTables |-> FALSE]
    /\ n_saves = 0

Init ==
    /\ round_col = TRUE
    /\ raw_sessions = {}
    /\ raw_session_result = {}
    /\ raw_laps = {}
    /\ raw_drivers = {}
    /\ raw_starting_grid = {}
    /\ schema = [t \in AnalyticsTables |-> "absent"]
    /\ grand_prix_results = <<>>
    /\ grand_prix_performance = <<>>
    /\ driver_championship_standings = <<>>
    /\ gp_df = <<>>
    /\ standings_df = <<>>
    /\ results = [t \in AnalyticsTables |-> FALSE]
    /\ n_saves = 0
    /\ NoCall
    /\ NoFeatures
    /\ NoSeasonCall
    /\ NoProvider
    /\ NoExtraction
    /\ NoContext
    /\ NoRequest

\* --------------------------------------------------------------- actions
\* DataExtractor.extract_year_data appends what the API returned for one race
\* meeting to the raw tables: the session row, the classification pos (a
\* function from the classified drivers to their position), the
\* disqualified drivers dsqs, the lap times laps, the roster and the grid.
ExtractRaceWith(slot, year, pos, dsqs, laps, roster, grid, row_bound) ==
    /\ \A s \in raw_sessions : s.session_key # slot
    /\ Cardinality(raw_session_result) + Cardinality(DOMAIN pos) <= row_bound
    /\ raw_sessions' = raw_sessions \cup
           {[session_key |-> slot, year |-> year, date_start |-> slot,
             race_date |-> slot, meeting_name |-> slot,
             race_round |-> IF round_col THEN slot ELSE NoColumn]}
    /\ raw_session_result' = raw_session_result \cup
           {[session_key |-> slot, driver_number |-> d, position |-> pos[d],
             dsq |-> d \in dsqs] : d \in DOMAIN pos}
    /\ raw_laps' = raw_laps \cup
           {[session_key |-> slot, driver_number |-> d, lap_duration |-> laps[d]] :
                d \in DOMAIN laps}
    /\ raw_drivers' = raw_drivers \cup
           {[session_key |-> slot, driver_number |-> d] : d \in roster}
    /\ raw_starting_grid' = raw_starting_grid \cup
           {[session_key |-> slot, driver_number |-> d, position |-> grid[d]] :
                d \in DOMAIN grid}
    /\ UNCHANGED <<round_col, schema, grand_prix_results, grand_prix_performance,
                   driver_championship_standings, gp_df, standings_df, results, n_saves,
                   calc_vars, round_vars, season_vars, context_vars, client_vars, extract_vars, provider_vars>>

\* A classification ranks the classified drivers: the k-th of them has the
\* k-th position of the ladder (the podium places, then places out of the points).
Ladder(k) == IF k < PodiumPlaces THEN k ELSE BonusThreshold + k - PodiumPlaces + 1

Classifications(classified) ==
    {pos \in [classified -> {Ladder(k) : k \in 1..Cardinality(classified)}] :
        \A d, e \in classified : pos[d] = pos[e] => d = e}

\* the races of the calendar are extracted in order, as they are run
ExtractRace ==
    \E slot \in {Cardinality(raw_sessions) + 1} \cap Slots, year \in Years :
        \E classified \in {c \in SUBSET Drivers :
                Cardinality(raw_session_result) + Cardinality(c) <= MaxRows} :
            \E pos \in Classifications(classified) :
                ExtractRaceWith(slot, year, pos, {}, Empty, Drivers, Empty, MaxRows)

\* DataTransformer.setup_analytics_tables: CREATE TABLE IF NOT EXISTS for the
\* three analytics schemas
SetupAnalyticsTables ==
    /\ \E t \in AnalyticsTables : schema[t] = "absent"
    /\ schema' = [t \in AnalyticsTables |->
                     IF schema[t] = "absent" THEN "pk" ELSE schema[t]]
    /\ UNCHANGED <<round_col, raw_vars, grand_prix_results, grand_prix_performance,
                   driver_championship_standings, gp_df, standings_df, results, n_saves,
                   calc_vars, round_vars, season_vars, context_vars, client_vars, extract_vars, provider_vars>>

\* a standings step that does not look at the results step
StandingsStepAlwaysRuns(gp_ok) == TRUE

\* line 429: if results.get("grand_prix_results", False)
StandingsStepRuns(gp_ok) == gp_ok

\* DataTransformer.save_analytics_data(year)
SaveAnalyticsData(year) ==
    /\ n_saves < MaxSaves
    /\ \E gp_results \in {TransformGrandPrixResults(year)},
          gp_performance \in {TransformGrandPrixPerformance(year)} :
        LET gp_ok == /\ gp_results # <<>>
                     /\ InsertSucceeds(schema["grand_prix_results"],
                                       ResultId(grand_prix_results), ResultId(gp_results))
            gp_table == IF gp_ok THEN grand_prix_results \o gp_results
                        ELSE grand_prix_results
            perf_ok == /\ gp_performance # <<>>
                       /\ InsertSucceeds(schema["grand_prix_performance"],
                                         PerformanceId(grand_prix_performance),
                                         PerformanceId(gp_performance))
        IN  \E standings \in IF StandingsStepRuns(gp_ok)
                             THEN {TransformChampionshipStandings(year, rs) :
                                       rs \in FetchOrders(gp_table, year)}
                             ELSE {<<>>} :
            LET st_ok == /\ StandingsStepRuns(gp_ok)
                         /\ standings # <<>>
                         /\ InsertSucceeds(schema["driver_championship_standings"],
                                           StandingId(driver_championship_standings),
                                           StandingId(standings))
            IN  /\ n_saves' = n_saves + 1
                /\ gp_df' = gp_results
                /\ grand_prix_results' = gp_table
                /\ grand_prix_performance' =
                       IF perf_ok THEN grand_prix_performance \o gp_performance
                       ELSE grand_prix_performance
                /\ standings_df' = IF StandingsStepRuns(gp_ok) THEN standings
                                   ELSE standings_df
                /\ driver_championship_standings' =
                       IF st_ok THEN driver_championship_standings \o standings
                       ELSE driver_championship_standings
                /\ schema' = [t \in AnalyticsTables |->
                       IF \/ t = "grand_prix_results" /\ gp_results # <<>>
                          \/ t = "grand_prix_performance" /\ gp_performance # <<>>
                          \/ t = "driver_championship_standings"
                                 /\ StandingsStepRuns(gp_ok) /\ standings # <<>>
                       THEN ModeAfterInsert(schema[t]) ELSE schema[t]]
                /\ results' = [t \in AnalyticsTables |->
                       CASE t = "grand_prix_results" -> gp_ok
                         [] t = "grand_prix_performance" -> perf_ok
                         [] t = "driver_championship_standings" -> st_ok]
                /\ UNCHANGED <<round_col, raw_vars, calc_vars, round_vars, season_vars, context_vars, client_vars, extract_vars, provider_vars>>

Save == \E year \in Years : SaveAnalyticsData(year)

Next == ExtractRace \/ SetupAnalyticsTables \/ Save

Spec == Init /\ [][Next]_vars

\* ------------------------------------------- builder and scenario runs
\* Races with a full field: the first two drivers are classified, every
\* driver has one timed lap and exactly one of them has the fastest lap.
FieldPositions == {1, 3, 11}
LapTimes == {80, 90}
Fast == CHOOSE t \in LapTimes : \A u \in LapTimes : t <= u
Slow == CHOOSE t \in LapTimes : \A u \in LapTimes : t >= u
ClassifiedField == {1, 2}

InitBuild ==
    /\ round_col \in BOOLEAN
    /\ raw_sessions = {}
    /\ raw_session_result = {}
    /\ raw_laps = {}
    /\ raw_drivers = {}
    /\ raw_starting_grid = {}
    /\ schema = [t \in AnalyticsTables |-> "absent"]
    /\ grand_prix_results = <<>>
    /\ grand_prix_performance = <<>>
    /\ driver_championship_standings = <<>>
    /\ gp_df = <<>>
    /\ standings_df = <<>>
    /\ results = [t \in AnalyticsTables |-> FALSE]
    /\ n_saves = 0
    /\ NoCall
    /\ NoFeatures
    /\ NoSeasonCall
    /\ NoProvider
    /\ NoExtraction
    /\ NoContext
    /\ NoRequest

ExtractFieldRace ==
    \E slot \in Slots, year \in Years, fastest \in Drivers,
       dsqs \in {{}} \cup {{d} : d \in ClassifiedField} :
        \E pos \in [ClassifiedField -> FieldPositions] :
            ExtractRaceWith(slot, year, pos, dsqs,
                            [d \in Drivers |-> IF d = fastest THEN Fast ELSE Slow],
                            Drivers, Empty, FieldRows)

FirstSave == n_saves = 0 /\ Save

NextBuild == ExtractFieldRace \/ FirstSave

SpecBuild == InitBuild /\ [][NextBuild]_vars

\* ------------------------------------------ runs with a failing results step
\* Races won by one driver, and races whose session is not classified yet:
\* the only result row has no position and the driver has a timed lap, so
\* that the results step of the next save raises inside the builder and
\* returns an empty frame although earlier races are stored.
ExtractWonRace ==
    \E slot \in {Cardinality(raw_sessions) + 1} \cap Slots, year \in Years, d \in Drivers :
        ExtractRaceWith(slot, year, [x \in {d} |-> 1], {}, Empty, Drivers, Empty, MaxRows)

ExtractUnclassifiedRace ==
    \E slot \in {Cardinality(raw_sessions) + 1} \cap Slots, year \in Years, d \in Drivers :
        ExtractRaceWith(slot, year, [x \in {d} |-> NULL], {}, [x \in {d} |-> Fast],
                        Drivers, Empty, MaxRows)

NextSteps == ExtractWonRace \/ ExtractUnclassifiedRace \/ SetupAnalyticsTables \/ Save

SpecSteps == Init /\ [][NextSteps]_vars

\* ------------------------------------------------ points calculator runs
\* One call of _calculate_points.  The position is a classified place or
\* NULL, the position of an unclassified driver (NaN; None reaches the call
\* only with has_fastest_lap False, line 137 raising before the call
\* otherwise, and scores the same).
CalcPositions == (1..MaxPosition) \cup {NULL}

InitPoints ==
    /\ round_col = TRUE
    /\ raw_sessions = {}
    /\ raw_session_result = {}
    /\ raw_laps = {}
    /\ raw_drivers = {}
    /\ raw_starting_grid = {}
    /\ schema = [t \in AnalyticsTables |-> "absent"]
    /\ grand_prix_results = <<>>
    /\ grand_prix_performance = <<>>
    /\ driver_championship_standings = <<>>
    /\ gp_df = <<>>
    /\ standings_df = <<>>
    /\ results = [t \in AnalyticsTables |-> FALSE]
    /\ n_saves = 0
    /\ calc_position \in CalcPositions
    /\ calc_given \in BOOLEAN
    /\ calc_has_fastest_lap \in IF calc_given THEN BOOLEAN ELSE {FALSE}
    /\ calc_points = NULL
    /\ NoFeatures
    /\ NoSeasonCall
    /\ NoProvider
    /\ NoExtraction
    /\ NoContext
    /\ NoRequest

CalculatePointsCall ==
    /\ calc_points = NULL
    /\ calc_points' = CalculatePoints(calc_position,
                           IF calc_given THEN calc_has_fastest_lap ELSE FALSE)
    /\ UNCHANGED <<round_col, raw_vars, schema, grand_prix_results,
                   grand_prix_performance, driver_championship_standings, gp_df,
                   standings_df, results, n_saves, calc_position, calc_given,
                   calc_has_fastest_lap, round_vars, season_vars, context_vars, client_vars, extract_vars, provider_vars>>

NextPoints == CalculatePointsCall

SpecPoints == InitPoints /\ [][NextPoints]_vars

\* --------------------------------------------------- feature round runs
\* AIPreparationTransformer._get_race_round(year, grand_prix) is
\* hash(grand_prix) % 23 + 1.  The hash of a string is fixed within one
\* interpreter and differs from one interpreter to the next (hash
\* randomisation): py_hash is any function of the names.  The values drawn
\* are the residues 0..MaxHashResidue in two consecutive periods of the
\* modulus.
RoundModulus == 23
HashValues == {q * RoundModulus + r : q \in 0..1, r \in 0..MaxHashResidue}

GetRaceRound(hash, grand_prix) == (hash[grand_prix] % RoundModulus) + 1

InitRounds ==
    /\ round_col = TRUE
    /\ raw_sessions = {}
    /\ raw_session_result = {}
    /\ raw_laps = {}
    /\ raw_drivers = {}
    /\ raw_starting_grid = {}
    /\ schema = [t \in AnalyticsTables |-> "absent"]
    /\ grand_prix_results = <<>>
    /\ grand_prix_performance = <<>>
    /\ driver_championship_standings = <<>>
    /\ gp_df = <<>>
    /\ standings_df = <<>>
    /\ results = [t \in AnalyticsTables |-> FALSE]
    /\ n_saves = 0
    /\ NoCall
    /\ py_hash \in [Slots -> HashValues]
    /\ feature_round = Empty
    /\ NoSeasonCall
    /\ NoProvider
    /\ NoExtraction
    /\ NoContext
    /\ NoRequest

\* create_driver_performance_features: every grand prix of the year gets the
\* round of line 111
CreateDriverPerformanceFeatures ==
    /\ feature_round' = [g \in Slots |-> GetRaceRound(py_hash, g)]
    /\ UNCHANGED <<round_col, raw_vars, schema, grand_prix_results,
                   grand_prix_performance, driver_championship_standings, gp_df,
                   standings_df, results, n_saves, calc_vars, py_hash, season_vars, context_vars, client_vars, extract_vars, provider_vars>>

\* the program is started again: a new interpreter, a new hash
StartInterpreter ==
    /\ py_hash' \in [Slots -> HashValues]
    /\ UNCHANGED <<round_col, raw_vars, schema, grand_prix_results,
                   grand_prix_performance, driver_championship_standings, gp_df,
                   standings_df, results, n_saves, calc_vars, feature_round,
                   season_vars, context_vars, client_vars, extract_vars, provider_vars>>

NextRounds == CreateDriverPerformanceFeatures \/ StartInterpreter

SpecRounds == InitRounds /\ [][NextRounds]_vars

\* ------------------------------------------------- two seasons, interleaved
\* save_analytics_data(year) is run once for each of two seasons, by two
\* callers on one database.  A call is three database steps (results, performance,
\* standings); the steps of the two calls interleave in any order.  The
\* session keys and dates of the second season follow those of the first,
\* the grands prix have the same names in both; MaxRaces bounds the races of
\* the two seasons together.
SessionKey(year, round) == (year - 2023) * MaxRaces + round

\* the analytics tables were created from the schemas, or not at all
InitSeasons ==
    /\ round_col = TRUE
    /\ raw_sessions = {}
    /\ raw_session_result = {}
    /\ raw_laps = {}
    /\ raw_drivers = {}
    /\ raw_starting_grid = {}
    /\ schema \in {[t \in AnalyticsTables |-> mode] : mode \in {"absent", "pk"}}
    /\ grand_prix_results = <<>>
    /\ grand_prix_performance = <<>>
    /\ driver_championship_standings = <<>>
    /\ gp_df = <<>>
    /\ standings_df = <<>>
    /\ results = [t \in AnalyticsTables |-> FALSE]
    /\ n_saves = 0
    /\ NoCall
    /\ NoFeatures
    /\ NoSeasonCall
    /\ NoProvider
    /\ NoExtraction
    /\ NoContext
    /\ NoRequest

\* the races of the two seasons reach the raw tables before the calls
ExtractSeasonRace ==
    \E year \in {y \in Seasons : Cardinality(raw_sessions) < MaxRaces} :
        \E round \in {Cardinality(RaceSessions(year)) + 1} :
            \E classified \in {c \in SUBSET Drivers : c # {} /\
                    Cardinality(raw_session_result) + Cardinality(c) <= MaxRows} :
                \E pos \in Classifications(classified) :
                    /\ \A y \in Seasons : season_pc[y] = "idle"
                    /\ raw_sessions' = raw_sessions \cup
                           {[session_key |-> SessionKey(year, round), year |-> year,
                             date_start |-> SessionKey(year, round),
                             race_date |-> SessionKey(year, round),
                             meeting_name |-> round, race_round |-> round]}
                    /\ raw_session_result' = raw_session_result \cup
                           {[session_key |-> SessionKey(year, round), driver_number |-> d,
                             position |-> pos[d], dsq |-> FALSE] : d \in classified}
                    /\ raw_drivers' = raw_drivers \cup
                           {[session_key |-> SessionKey(year, round), driver_number |-> d] :
                                d \in classified}
                    /\ UNCHANGED <<round_col, raw_laps, raw_starting_grid, schema,
                                   grand_prix_results, grand_prix_performance,
                                   driver_championship_standings, gp_df, standings_df,
                                   results, n_saves, calc_vars, round_vars, season_vars, context_vars, client_vars, extract_vars, provider_vars>>

\* lines 401-412 of the call for season year
SeasonResultsStep(year) ==
    /\ season_pc[year] = "idle"
    /\ LET gp_results == TransformGrandPrixResults(year)
           gp_ok == /\ gp_results # <<>>
                    /\ InsertSucceeds(schema["grand_prix_results"],
                                      ResultId(grand_prix_results), ResultId(gp_results))
       IN  /\ grand_prix_results' = IF gp_ok THEN grand_prix_results \o gp_results
                                    ELSE grand_prix_results
           /\ schema' = [schema EXCEPT !["grand_prix_results"] =
                            IF gp_results # <<>> THEN ModeAfterInsert(@) ELSE @]
           /\ season_results' = [season_results EXCEPT ![year] =
                                    [t \in AnalyticsTables |->
                                        t = "grand_prix_results" /\ gp_ok]]
    /\ season_pc' = [season_pc EXCEPT ![year] = "performance"]
    /\ UNCHANGED <<round_col, raw_vars, grand_prix_performance,
                   driver_championship_standings, gp_df, standings_df, results, n_saves,
                   season_standings, calc_vars, round_vars, context_vars, client_vars, extract_vars, provider_vars>>

\* lines 414-426
SeasonPerformanceStep(year) ==
    /\ season_pc[year] = "performance"
    /\ LET gp_performance == TransformGrandPrixPerformance(year)
           perf_ok == /\ gp_performance # <<>>
                      /\ InsertSucceeds(schema["grand_prix_performance"],
                                        PerformanceId(grand_prix_performance),
                                        PerformanceId(gp_performance))
       IN  /\ grand_prix_performance' =
                  IF perf_ok THEN grand_prix_performance \o gp_performance
                  ELSE grand_prix_performance
           /\ schema' = [schema EXCEPT !["grand_prix_performance"] =
                            IF gp_performance # <<>> THEN ModeAfterInsert(@) ELSE @]
           /\ season_results' = [season_results EXCEPT
                                    ![year]["grand_prix_performance"] = perf_ok]
    /\ season_pc' = [season_pc EXCEPT ![year] = "standings"]
    /\ UNCHANGED <<round_col, raw_vars, grand_prix_results,
                   driver_championship_standings, gp_df, standings_df, results, n_saves,
                   season_standings, calc_vars, round_vars, context_vars, client_vars, extract_vars, provider_vars>>

\* lines 428-446
SeasonStandingsStep(year) ==
    /\ season_pc[year] = "standings"
    /\ \E standings \in IF season_results[year]["grand_prix_results"]
                        THEN {TransformChampionshipStandings(year, rs) :
                                  rs \in FetchOrders(grand_prix_results, year)}
                        ELSE {<<>>} :
        LET st_ok == /\ season_results[year]["grand_prix_results"]
                     /\ standings # <<>>
                     /\ InsertSucceeds(schema["driver_championship_standings"],
                                       StandingId(driver_championship_standings),
                                       StandingId(standings))
        IN  /\ driver_championship_standings' =
                   IF st_ok THEN driver_championship_standings \o standings
                   ELSE driver_championship_standings
            /\ schema' = [schema EXCEPT !["driver_championship_standings"] =
                             IF standings # <<>> THEN ModeAfterInsert(@) ELSE @]
            /\ season_results' = [season_results EXCEPT
                                     ![year]["driver_championship_standings"] = st_ok]
            /\ season_standings' = [season_standings EXCEPT ![year] = standings]
    /\ season_pc' = [season_pc EXCEPT ![year] = "returned"]
    /\ UNCHANGED <<round_col, raw_vars, grand_prix_results, grand_prix_performance,
                   gp_df, standings_df, results, n_saves, calc_vars, round_vars, context_vars, client_vars, extract_vars, provider_vars>>

SeasonStep ==
    \E year \in Seasons :
        \/ SeasonResultsStep(year)
        \/ SeasonPerformanceStep(year)
        \/ SeasonStandingsStep(year)

NextSeasons == ExtractSeasonRace \/ SeasonStep

SpecSeasons == InitSeasons /\ [][NextSeasons]_vars

\* ------------------------------------------------ race context features
\* AIPreparationTransformer.create_race_context_features builds one record
\* per race from three lookups: the track table, the race-control query and
\* the weather query.  A query either raises or returns rows; the rows of
\* the race-control query are counted by kind, the rows of the weather
\* query carry an air temperature and a rainfall reading.
KnownTracks == {"Monaco", "Monza", "Silverstone"}
Circuits == KnownTracks \cup {"Spa"}
Temperatures == {20, 25}
Rainfalls == {0, 1}
VarianceThreshold == 5

WeatherRow == [air_temperature : Temperatures, rainfall : Rainfalls]

RaceControlOutcomes ==
    {[raises |-> TRUE, safety |-> 0, red |-> 0]} \cup
    {[raises |-> FALSE, safety |-> a, red |-> b] : a \in 0..MaxEvents, b \in 0..MaxEvents}

WeatherOutcomes ==
    {[raises |-> TRUE, rows |-> <<>>]} \cup
    {[raises |-> FALSE, rows |-> rows] :
        rows \in UNION {[1..n -> WeatherRow] : n \in 0..MaxReadings}}

\* _calculate_track_features: track_characteristics.get(circuit_name, {...None})
CalculateTrackFeatures(circuit_name) ==
    CASE circuit_name = "Monaco" ->
            [circuit_length |-> 3337, number_of_turns |-> 19, overtaking_difficulty |-> 9]
      [] circuit_name = "Monza" ->
            [circuit_length |-> 5793, number_of_turns |-> 11, overtaking_difficulty |-> 3]
      [] circuit_name = "Silverstone" ->
            [circuit_length |-> 5891, number_of_turns |-> 18, overtaking_difficulty |-> 5]
      [] OTHER ->
            [circuit_length |-> NULL, number_of_turns |-> NULL, overtaking_difficulty |-> NULL]

\* _calculate_race_events: the counts of the rows, 0 and 0 when the query raises
CalculateRaceEvents(outcome) ==
    IF outcome.raises
    THEN [safety_car_deployments |-> 0, red_flag_periods |-> 0, total_race_time |-> NULL]
    ELSE [safety_car_deployments |-> outcome.safety, red_flag_periods |-> outcome.red,
          total_race_time |-> NULL]

\* weather["air_temperature"].var() > 5, the sample variance of n >= 2 values:
\* (n * sum(x^2) - sum(x)^2) / (n * (n - 1)) > 5
VarianceOver(rows, threshold) ==
    LET n == Len(rows)
        sum == SumSeq([i \in 1..n |-> rows[i].air_temperature])
        squares == SumSeq([i \in 1..n |-> rows[i].air_temperature * rows[i].air_temperature])
    IN  n > 1 /\ n * squares - sum * sum > threshold * n * (n - 1)

\* _calculate_weather_features; a Python bool is the integer 0 or 1 and
\* rain_probability, the share of rows with rainfall, is given in percent
CalculateWeatherFeatures(outcome) ==
    IF outcome.raises \/ outcome.rows = <<>>
    THEN [weather_changes |-> 0, rain_probability |-> NULL]
    ELSE [weather_changes |-> IF VarianceOver(outcome.rows, VarianceThreshold) THEN 1 ELSE 0,
          rain_probability |->
              (100 * Len(SelectSeq(outcome.rows, LAMBDA w : w.rainfall > 0)))
                  \div Len(outcome.rows)]

\* lines 165-189: the record of one race
RaceContextFeatures(circuit, control, weather_outcome) ==
    LET track_features == CalculateTrackFeatures(circuit)
        race_events == CalculateRaceEvents(control)
        weather_features == CalculateWeatherFeatures(weather_outcome)
    IN  [circuit_length |-> track_features.circuit_length,
         number_of_turns |-> track_features.number_of_turns,
         overtaking_difficulty |-> track_features.overtaking_difficulty,
         safety_car_deployments |-> race_events.safety_car_deployments,
         red_flag_periods |-> race_events.red_flag_periods,
         total_race_time |-> race_events.total_race_time,
         weather_changes |-> weather_features.weather_changes,
         rain_probability |-> weather_features.rain_probability]

InitContext ==
    /\ NoData
    /\ NoCall
    /\ NoFeatures
    /\ NoSeasonCall
    /\ NoProvider
    /\ NoExtraction
    /\ NoRequest
    /\ circuit_short_name \in Circuits
    /\ race_control \in RaceControlOutcomes
    /\ weather \in WeatherOutcomes
    /\ race_features = <<>>

CreateRaceContextFeatures ==
    /\ race_features = <<>>
    /\ race_features' = <<RaceContextFeatures(circuit_short_name, race_control, weather)>>
    /\ UNCHANGED <<circuit_short_name, race_control, weather, platform_vars,
                   calc_vars, round_vars, season_vars, client_vars, extract_vars, provider_vars>>

NextContext == CreateRaceContextFeatures

SpecContext == InitContext /\ [][NextContext]_vars

\* ------------------------------------------------- OpenF1Client._make_request
\* One call of _make_request.  Each iteration of the loop sleeps, then sends
\* one GET; the GET either gives a JSON body or fails with a
\* RequestException (raise_for_status included).  http_log records the
\* sleeps, with their duration, and the requests, with their outcome.
RateLimitDelays == {1, 2, 3}
Bodies == {1, 2}
BackoffBase == 2

RECURSIVE Power(_, _)
Power(b, n) == IF n = 0 THEN 1 ELSE b * Power(b, n - 1)

\* a backoff that grows by one delay per retry
SleepDurationLinear(delay, n) == delay * (n + 1)

\* lines 167-170
SleepDuration(delay, n) == IF n > 0 THEN delay * Power(BackoffBase, n) ELSE delay

InitRequest ==
    /\ NoData
    /\ NoCall
    /\ NoFeatures
    /\ NoSeasonCall
    /\ NoProvider
    /\ NoExtraction
    /\ NoContext
    /\ max_retries \in 0..MaxRetries
    /\ rate_limit_delay \in RateLimitDelays
    /\ attempt = 0
    /\ http_log = <<>>
    /\ request_state = "sleep"
    /\ response = NULL

\* time.sleep(...) at the head of the try block
RequestSleep ==
    /\ request_state = "sleep"
    /\ http_log' = Append(http_log, [kind |-> "sleep",
                                     value |-> SleepDuration(rate_limit_delay, attempt)])
    /\ request_state' = "get"
    /\ UNCHANGED <<max_retries, rate_limit_delay, attempt, response, platform_vars,
                   calc_vars, round_vars, season_vars, context_vars, extract_vars, provider_vars>>

\* session.get, raise_for_status and response.json() succeed: return
RequestSucceeds ==
    /\ request_state = "get"
    /\ \E body \in Bodies :
        /\ http_log' = Append(http_log, [kind |-> "get", value |-> body])
        /\ response' = body
    /\ request_state' = "returned"
    /\ UNCHANGED <<max_retries, rate_limit_delay, attempt, platform_vars,
                   calc_vars, round_vars, season_vars, context_vars, extract_vars, provider_vars>>

\* a loop that allows one retry more
RequestFailsOneMore ==
    /\ request_state = "get"
    /\ http_log' = Append(http_log, [kind |-> "get", value |-> NULL])
    /\ IF attempt = max_retries + 1
       THEN request_state' = "raised" /\ attempt' = attempt
       ELSE request_state' = "sleep" /\ attempt' = attempt + 1
    /\ UNCHANGED <<max_retries, rate_limit_delay, response, platform_vars,
                   calc_vars, round_vars, season_vars, context_vars, extract_vars, provider_vars>>

\* a RequestException: raise on the last attempt, else continue
RequestFails ==
    /\ request_state = "get"
    /\ http_log' = Append(http_log, [kind |-> "get", value |-> NULL])
    /\ IF attempt = max_retries
       THEN request_state' = "raised" /\ attempt' = attempt
       ELSE request_state' = "sleep" /\ attempt' = attempt + 1
    /\ UNCHANGED <<max_retries, rate_limit_delay, response, platform_vars,
                   calc_vars, round_vars, season_vars, context_vars, extract_vars, provider_vars>>

NextRequest == RequestSleep \/ RequestSucceeds \/ RequestFails

SpecRequest == InitRequest /\ [][NextRequest]_vars

\* ------------------------- get_all_data_for_year and extract_year_data
\* extract_year_data iterates the generator get_all_data_for_year.  A step
\* is one get_data call of the generator with what follows it up to the
\* next call: the item it yields, the processing of the item by the
\* extractor, and the resumption of the generator.  get_data gives a
\* DataFrame ("frame"), the empty list of an empty JSON answer
\* ("empty_list": as_dataframe and data is false, line 205), or raises; for
\* the meetings it may also give a DataFrame without cells ("empty_frame").
\* Every meeting that has sessions has one.
session_endpoints ==
    <<"drivers", "laps", "position", "intervals", "pit", "location", "stints",
      "weather", "race_control", "team_radio", "overtakes", "session_result",
      "starting_grid">>

\* the endpoints requested for a session: the first MaxEndpoints of the
\* list, then car_data
EndpointName(e) == IF e <= MaxEndpoints THEN session_endpoints[e] ELSE "car_data"
LastEndpoint == MaxEndpoints + 1

\* what the loop body of extract_year_data does with one yielded item: the
\* upload and the database save succeed or return False, or the body raises
ProcessOutcomes(has_records) ==
    IF has_records
    THEN {[upload |-> u, db |-> d, raises |-> FALSE] : u \in BOOLEAN, d \in BOOLEAN}
             \cup {[upload |-> TRUE, db |-> TRUE, raises |-> TRUE]}
    ELSE {[upload |-> TRUE, db |-> TRUE, raises |-> FALSE]}

\* lines 64-92
ProcessItem(st, p) ==
    IF p.raises
    THEN [st EXCEPT !.errors = @ + 1]
    ELSE [st EXCEPT !.errors = @ + (IF p.upload THEN 0 ELSE 1) + (IF p.db THEN 0 ELSE 1),
                    !.endpoints_processed = @ + 1]

\* an outer handler that only logs
SourceFailedUncounted(st) == st

\* lines 94-96: an exception leaves the generator
SourceFailed(st) == [st EXCEPT !.errors = @ + 1]

InitExtract ==
    /\ NoData
    /\ NoCall
    /\ NoFeatures
    /\ NoSeasonCall
    /\ NoProvider
    /\ NoContext
    /\ NoRequest
    /\ gen_pc = "meetings"
    /\ n_meetings = 0
    /\ fetch_idx = 0
    /\ endpoint_idx = 0
    /\ api_log = <<>>
    /\ yield_log = <<>>
    /\ stats = [endpoints_processed |-> 0, errors |-> 0]
    /\ extract_pc = "running"

\* lines 257-262: get_meetings, yield, meetings_df.empty
FetchMeetings ==
    /\ gen_pc = "meetings"
    /\ \E outcome \in {"frame", "empty_frame", "empty_list", "raises"} :
        /\ api_log' = Append(api_log, [endpoint |-> "meetings", key |-> 0,
                                       outcome |-> outcome])
        /\ IF outcome = "raises"
           THEN /\ gen_pc' = "raised"
                /\ stats' = SourceFailed(stats)
                /\ extract_pc' = "returned"
                /\ UNCHANGED <<n_meetings, fetch_idx, yield_log>>
           ELSE \E p \in ProcessOutcomes(outcome = "frame") :
                /\ yield_log' = Append(yield_log, "meetings")
                /\ CASE outcome = "frame" ->
                          /\ \E n \in 1..MaxMeetings : n_meetings' = n
                          /\ gen_pc' = "sessions"
                          /\ fetch_idx' = 1
                          /\ stats' = ProcessItem(stats, p)
                          /\ extract_pc' = "running"
                     [] outcome = "empty_frame" ->
                          /\ gen_pc' = "stopped"
                          /\ stats' = ProcessItem(stats, p)
                          /\ extract_pc' = "returned"
                          /\ UNCHANGED <<n_meetings, fetch_idx>>
                     [] outcome = "empty_list" ->
                          \* a list has no attribute empty
                          /\ gen_pc' = "raised"
                          /\ stats' = SourceFailed(ProcessItem(stats, p))
                          /\ extract_pc' = "returned"
                          /\ UNCHANGED <<n_meetings, fetch_idx>>
    /\ UNCHANGED <<endpoint_idx, platform_vars, calc_vars, round_vars, season_vars,
                   context_vars, client_vars, provider_vars>>

\* lines 265-275: get_sessions for a meeting; after the last one pd.concat,
\* which raises on a list, and the yield of the sessions
FetchSessions ==
    /\ gen_pc = "sessions"
    /\ \E outcome \in {"frame", "empty_list", "raises"} :
        LET log == Append(api_log, [endpoint |-> "sessions", key |-> fetch_idx,
                                    outcome |-> outcome])
            fetched == SelectSeq(log, LAMBDA c : c.endpoint = "sessions")
        IN  /\ api_log' = log
            /\ IF outcome = "raises"
               THEN /\ gen_pc' = "raised"
                    /\ stats' = SourceFailed(stats)
                    /\ extract_pc' = "returned"
                    /\ UNCHANGED <<fetch_idx, endpoint_idx, yield_log>>
               ELSE IF fetch_idx < n_meetings
               THEN /\ fetch_idx' = fetch_idx + 1
                    /\ UNCHANGED <<gen_pc, stats, extract_pc, endpoint_idx, yield_log>>
               ELSE IF \E i \in 1..Len(fetched) : fetched[i].outcome = "empty_list"
               THEN /\ gen_pc' = "raised"
                    /\ stats' = SourceFailed(stats)
                    /\ extract_pc' = "returned"
                    /\ UNCHANGED <<fetch_idx, endpoint_idx, yield_log>>
               ELSE \E p \in ProcessOutcomes(TRUE) :
                    /\ yield_log' = Append(yield_log, "sessions")
                    /\ stats' = ProcessItem(stats, p)
                    /\ gen_pc' = "endpoints"
                    /\ fetch_idx' = 1
                    /\ endpoint_idx' = 1
                    /\ extract_pc' = "running"
    /\ UNCHANGED <<n_meetings, platform_vars, calc_vars, round_vars, season_vars,
                   context_vars, client_vars, provider_vars>>

\* a loop without the try blocks: an exception of get_data, or of .empty
\* on a list, leaves the generator
FetchEndpointUnguarded ==
    /\ gen_pc = "endpoints"
    /\ \E outcome \in {"frame", "empty_list", "raises"} :
        /\ api_log' = Append(api_log, [endpoint |-> EndpointName(endpoint_idx),
                                       key |-> fetch_idx, outcome |-> outcome])
        /\ IF outcome = "frame"
           THEN \E p \in ProcessOutcomes(TRUE) :
                /\ yield_log' = Append(yield_log, EndpointName(endpoint_idx))
                /\ stats' = ProcessItem(stats, p)
                /\ IF endpoint_idx < LastEndpoint
                   THEN /\ endpoint_idx' = endpoint_idx + 1
                        /\ UNCHANGED <<fetch_idx, gen_pc, extract_pc>>
                   ELSE IF fetch_idx < n_meetings
                   THEN /\ endpoint_idx' = 1
                        /\ fetch_idx' = fetch_idx + 1
                        /\ UNCHANGED <<gen_pc, extract_pc>>
                   ELSE /\ gen_pc' = "stopped"
                        /\ extract_pc' = "returned"
                        /\ UNCHANGED <<fetch_idx, endpoint_idx>>
           ELSE /\ gen_pc' = "raised"
                /\ stats' = SourceFailed(stats)
                /\ extract_pc' = "returned"
                /\ UNCHANGED <<yield_log, fetch_idx, endpoint_idx>>
    /\ UNCHANGED <<n_meetings, platform_vars, calc_vars, round_vars, season_vars,
                   context_vars, client_vars, provider_vars>>

\* lines 289-314: one get_data call of a session inside its try block; the
\* generator goes on to the next endpoint, the next session, or returns
FetchEndpoint ==
    /\ gen_pc = "endpoints"
    /\ \E outcome \in {"frame", "empty_list", "raises"} :
        /\ api_log' = Append(api_log, [endpoint |-> EndpointName(endpoint_idx),
                                       key |-> fetch_idx, outcome |-> outcome])
        /\ IF outcome = "frame"
           THEN \E p \in ProcessOutcomes(TRUE) :
                /\ yield_log' = Append(yield_log, EndpointName(endpoint_idx))
                /\ stats' = ProcessItem(stats, p)
           ELSE UNCHANGED <<yield_log, stats>>
    /\ IF endpoint_idx < LastEndpoint
       THEN /\ endpoint_idx' = endpoint_idx + 1
            /\ UNCHANGED <<fetch_idx, gen_pc, extract_pc>>
       ELSE IF fetch_idx < n_meetings
       THEN /\ endpoint_idx' = 1
            /\ fetch_idx' = fetch_idx + 1
            /\ UNCHANGED <<gen_pc, extract_pc>>
       ELSE /\ gen_pc' = "stopped"
            /\ extract_pc' = "returned"
            /\ UNCHANGED <<fetch_idx, endpoint_idx>>
    /\ UNCHANGED <<n_meetings, platform_vars, calc_vars, round_vars, season_vars,
                   context_vars, client_vars, provider_vars>>

NextExtract == FetchMeetings \/ FetchSessions \/ FetchEndpoint

SpecExtract == InitExtract /\ [][NextExtract]_vars

\* --------------------------------------------- LocalDatabaseProvider
\* connect and close on one provider.  A connection object is named by the
\* rank of the sqlite3.connect call that created it; sqlite3.connect and
\* Connection.close are taken to succeed.

\* a connect that opens a connection on every call
ConnectAlwaysOpens ==
    /\ Len(conn_log) < MaxCalls
    /\ n_opened' = n_opened + 1
    /\ connection' = n_opened + 1
    /\ conn_log' = Append(conn_log, [op |-> "connect", value |-> connection'])
    /\ UNCHANGED <<platform_vars, calc_vars, round_vars, season_vars, context_vars,
                   client_vars, extract_vars>>

\* lines 131-137
Connect ==
    /\ Len(conn_log) < MaxCalls
    /\ IF connection = NULL
       THEN n_opened' = n_opened + 1 /\ connection' = n_opened + 1
       ELSE UNCHANGED <<n_opened, connection>>
    /\ conn_log' = Append(conn_log, [op |-> "connect", value |-> connection'])
    /\ UNCHANGED <<platform_vars, calc_vars, round_vars, season_vars, context_vars,
                   client_vars, extract_vars>>

\* lines 195-199; a Connection object is truthy
Close ==
    /\ Len(conn_log) < MaxCalls
    /\ connection' = NULL
    /\ conn_log' = Append(conn_log, [op |-> "close", value |-> NULL])
    /\ UNCHANGED <<n_opened, platform_vars, calc_vars, round_vars, season_vars,
                   context_vars, client_vars, extract_vars>>

InitProvider ==
    /\ NoData
    /\ NoCall
    /\ NoFeatures
    /\ NoSeasonCall
    /\ NoContext
    /\ NoRequest
    /\ NoExtraction
    /\ connection = NULL
    /\ n_opened = 0
    /\ conn_log = <<>>

NextProvider == Connect \/ Close

SpecProvider == InitProvider /\ [][NextProvider]_vars

\* ============================================================ properties
\* standings_df is always the frame computed from the current contents of
\* grand_prix_results: the table changes only in the save that recomputes it.
Rounds == {standings_df[i].race_round : i \in 1..Len(standings_df)}
Snapshot(R) == {standings_df[i] : i \in {j \in 1..Len(standings_df) :
                                            standings_df[j].race_round = R}}
Log == Range(grand_prix_results)
LogDates == {r.date : r \in Log}
\* the date of the R-th race of the log
RaceDate(R) == CHOOSE d \in LogDates : Cardinality({e \in LogDates : e <= d}) = R
RacedSoFar(R) == {r.driver_number : r \in {x \in Log : x.date <= RaceDate(R)}}
RacedIn(R) == {r.driver_number : r \in {x \in Log : x.date = RaceDate(R)}}
Entry(R, d) == CHOOSE e \in Snapshot(R) : e.driver_number = d

\* C1: in the standings produced after every race the positions are exactly
\* 1..K, each once, K being the number of distinct drivers raced so far.
RankCompleteness ==
    \A R \in Rounds :
        LET K == Cardinality(RacedSoFar(R))
            rows == {i \in 1..Len(standings_df) : standings_df[i].race_round = R}
        IN  /\ Cardinality(rows) = K
            /\ {standings_df[i].position : i \in rows} = 1..K

RankCompletenessWitness ==
    \E R \in Rounds :
        /\ Cardinality(RacedSoFar(R)) >= 2
        /\ \E a, b \in Snapshot(R) : a.driver_number # b.driver_number /\ a.points = b.points

\* more wins, then more podiums, then the lower driver_number
Outranks(a, b) ==
    \/ a.wins > b.wins
    \/ a.wins = b.wins /\ a.podiums > b.podiums
    \/ a.wins = b.wins /\ a.podiums = b.podiums /\ a.driver_number < b.driver_number

\* the (date, final_position) of the first result of a driver
FirstKey(d) ==
    LET keys == {r.date * PosSpan + (IF r.final_position = NULL THEN 0 ELSE r.final_position) :
                     r \in {x \in Log : x.driver_number = d}}
    IN  CHOOSE k \in keys : \A m \in keys : k <= m

\* C2: drivers level on points are ordered by more wins, then more podiums,
\* then lower driver_number.  Stated for the drivers whose first results
\* differ in (date, final_position): their order in the frame is decided by
\* the code alone and not by the order in which the database returns equal rows.
TieBreakOrder ==
    \A R \in Rounds : \A a, b \in Snapshot(R) :
        (/\ a.points = b.points
         /\ Outranks(a, b)
         /\ FirstKey(a.driver_number) # FirstKey(b.driver_number))
            => a.position < b.position

\* the points of the result of driver d in the race of a date: a race gives a
\* driver one result
PerRacePoints(d, date) ==
    IF \E r \in Log : r.driver_number = d /\ r.date = date
    THEN (CHOOSE r \in Log : r.driver_number = d /\ r.date = date).points
    ELSE 0

PointsUpTo(d, date) ==
    SumSeq([s \in Slots |-> IF s <= date THEN PerRacePoints(d, s) ELSE 0])

\* C3: the points of a driver after race R are the sum of the per-race points
\* over races 1..R, in the snapshots and in total_season_points.
CumulativeCorrectness ==
    /\ \A i \in 1..Len(standings_df) :
           standings_df[i].points =
               PointsUpTo(standings_df[i].driver_number,
                          RaceDate(standings_df[i].race_round))
    /\ \A i \in 1..Len(gp_df) :
           gp_df[i].total_season_points =
               SumSeq([k \in 1..Len(gp_df) |->
                          IF /\ gp_df[k].driver_number = gp_df[i].driver_number
                             /\ gp_df[k].date <= gp_df[i].date
                          THEN gp_df[k].points ELSE 0])

\* C4: a replay of the log yields, at every race_round, the snapshots that any
\* earlier run produced: two snapshots with one key are the same record.
ReplayIdentical ==
    LET all == driver_championship_standings \o standings_df
    IN  \A i, j \in 1..Len(all) :
            all[i].standing_id = all[j].standing_id => all[i] = all[j]

\* the save feeds a result whose key is already in the log
FeedsProcessedRound ==
    \E i \in 1..Len(gp_df'), j \in 1..Len(grand_prix_results) :
        gp_df'[i].result_id = grand_prix_results[j].result_id

\* the save feeds a new result of a race older than a committed one
FeedsEarlierRound ==
    \E i \in 1..Len(gp_df') :
        /\ \A j \in 1..Len(grand_prix_results) :
               gp_df'[i].result_id # grand_prix_results[j].result_id
        /\ \E j \in 1..Len(grand_prix_results) :
               gp_df'[i].date < grand_prix_results[j].date

\* C5: a save that feeds a round already processed, or a race older than the
\* last committed one, is rejected and leaves the committed log and the
\* committed snapshots unchanged.
OrderRejection ==
    [][(n_saves' = n_saves + 1 /\ (FeedsProcessedRound \/ FeedsEarlierRound))
          => /\ ~results'["grand_prix_results"]
             /\ ~results'["driver_championship_standings"]
             /\ UNCHANGED <<grand_prix_results, driver_championship_standings>>]_vars

\* C6: the snapshot after a race has one entry per driver raced so far; a
\* driver absent from the race keeps the totals of the previous snapshot.
AbsentDriversKept ==
    \A R \in Rounds :
        /\ {e.driver_number : e \in Snapshot(R)} = RacedSoFar(R)
        /\ \A d \in RacedSoFar(R) \ RacedIn(R) :
               /\ (R - 1) \in Rounds
               /\ \E e \in Snapshot(R), f \in Snapshot(R - 1) :
                      /\ e.driver_number = d /\ f.driver_number = d
                      /\ e.position \in 1..Cardinality(RacedSoFar(R))
                      /\ e.points = f.points /\ e.wins = f.wins
                      /\ e.podiums = f.podiums
                      /\ e.points_finishes = f.points_finishes

AbsentDriversKeptWitness ==
    \E R \in Rounds : \E d \in RacedSoFar(R) \ RacedIn(R) :
        \E e \in Snapshot(R) : e.driver_number = d /\ e.points > 0

\* C7: a result built for a disqualified driver has 0 points.
DsqScoresZero ==
    \A i \in 1..Len(gp_df) : gp_df[i].dsq => gp_df[i].points = 0

\* the non-null lap durations of the session of a result
SessionLaps(r) ==
    {l.lap_duration : l \in {x \in raw_laps :
        /\ x.lap_duration # NULL
        /\ \E s \in raw_sessions : /\ s.session_key = x.session_key
                                   /\ s.race_date = r.date
                                   /\ s.meeting_name = r.grand_prix}}

HasFastestLap(r) ==
    /\ r.fastest_lap # NULL
    /\ \A t \in SessionLaps(r) : r.fastest_lap <= t

\* C8: only the driver with the minimum lap of the session, if classified
\* within the bonus threshold, gets the bonus point; every other driver gets
\* the table points.
BonusOnlyForFastest ==
    \A i \in 1..Len(gp_df) :
        gp_df[i].points =
            points_system(gp_df[i].final_position)
            + (IF HasFastestLap(gp_df[i]) /\ LeNaN(gp_df[i].final_position, BonusThreshold)
               THEN 1 ELSE 0)

\* the raw data of the two-race season of driver 1 (A) and driver 2 (B)
ScenarioRaw ==
    /\ {s.session_key : s \in raw_sessions} = {1, 2}
    /\ raw_session_result =
           {[session_key |-> 1, driver_number |-> 1, position |-> 1, dsq |-> FALSE],
            [session_key |-> 1, driver_number |-> 2, position |-> 11, dsq |-> FALSE],
            [session_key |-> 2, driver_number |-> 2, position |-> 1, dsq |-> FALSE],
            [session_key |-> 2, driver_number |-> 1, position |-> 3, dsq |-> FALSE]}
    /\ [session_key |-> 1, driver_number |-> 1, lap_duration |-> Fast] \in raw_laps
    /\ [session_key |-> 2, driver_number |-> 1, lap_duration |-> Slow] \in raw_laps
    /\ [session_key |-> 2, driver_number |-> 2, lap_duration |-> Slow] \in raw_laps

\* C9: the two-race season of A (driver 1) and B (driver 2): A wins race 1
\* with the fastest lap and B is P11; B wins race 2 and A is P3, the fastest
\* lap going to neither.  After race 1 A leads with 26 and B is 26 behind;
\* after race 2 A leads with 41, B is second with 25, 16 behind.
ScenarioStandings ==
    (ScenarioRaw /\ Rounds = {1, 2}) =>
        /\ Entry(1, 1).position = 1 /\ Entry(1, 1).points = 26
        /\ Entry(1, 2).position > 1 /\ Entry(1, 2).points_behind_leader = 26
        /\ Entry(2, 1).position = 1 /\ Entry(2, 1).points = 41
        /\ Entry(2, 2).position = 2 /\ Entry(2, 2).points = 25
        /\ Entry(2, 2).points_behind_leader = 16

\* C10: points_behind_leader is 0 at rank 1, never negative, the leader's
\* points minus the driver's, and non-decreasing with the rank.
LeaderGap ==
    \A R \in Rounds : \A a, b \in Snapshot(R) :
        /\ a.position = 1 => a.points_behind_leader = 0
        /\ a.points_behind_leader >= 0
        /\ b.position = 1 => a.points_behind_leader = b.points - a.points
        /\ a.position <= b.position => a.points_behind_leader <= b.points_behind_leader

LeaderGapWitness ==
    \E R \in Rounds : \E a, b, c \in Snapshot(R) :
        /\ a.position = 1 /\ b.position = 2 /\ c.position = 3
        /\ 0 < b.points_behind_leader
        /\ b.points_behind_leader < c.points_behind_leader

\* a session whose classification gives one non-null position to two drivers
DuplicatePositions(session_key) ==
    \E a, b \in GetSessionResults(session_key) :
        /\ a.driver_number # b.driver_number
        /\ a.position # NULL
        /\ a.position = b.position

\* C11: a race in which two drivers share a non-null final position is
\* rejected by the builder: no result record of that race is emitted.
DuplicatePositionsRejected ==
    \A s \in raw_sessions :
        DuplicatePositions(s.session_key) =>
            \A i \in 1..Len(gp_df) : gp_df[i].date # s.race_date

\* the raw rows behind a built result
SessionOf(r) ==
    CHOOSE s \in raw_sessions : s.race_date = r.date /\ s.meeting_name = r.grand_prix

HasGridEntry(r) ==
    \E g \in GetStartingGrid(SessionOf(r).session_key) : g.driver_number = r.driver_number

HasLapRecord(r) ==
    \E l \in raw_laps : /\ l.session_key = SessionOf(r).session_key
                        /\ l.driver_number = r.driver_number
                        /\ l.lap_duration # NULL

HasPenaltyEntry(r) ==
    \E i \in 1..Len(GetPenalties(SessionOf(r).session_key)) :
        GetPenalties(SessionOf(r).session_key)[i].driver_number = r.driver_number

\* C12: a built result has a null starting_grid_position, fastest_lap or
\* total_time_penalty when the driver has no grid entry, no lap record or no
\* penalty entry; the field is never defaulted to zero or to first place.
MissingEntriesAreNull ==
    \A i \in 1..Len(gp_df) :
        /\ ~HasGridEntry(gp_df[i]) => gp_df[i].starting_grid_position = NULL
        /\ ~HasLapRecord(gp_df[i]) => gp_df[i].fastest_lap = NULL
        /\ ~HasPenaltyEntry(gp_df[i]) => gp_df[i].total_time_penalty = NULL

\* C13: after any sequence of saves the stored race-result log holds one
\* result per (year, race_round, driver_number): no key is stored twice.
OneResultPerKey ==
    \A i, j \in 1..Len(grand_prix_results) :
        grand_prix_results[i].result_id = grand_prix_results[j].result_id => i = j

\* the default points table
DefaultTable == <<25, 18, 15, 12, 10, 8, 6, 4, 2, 1>>

\* C14: the calculator returns the table value of a classified position, 0
\* for any other position, plus 1 exactly when the driver is fastest-lap
\* eligible and the position is within 10; an unclassified driver scores 0
\* and the result is never negative.
PointsTableAndBonus ==
    calc_points # NULL =>
        /\ calc_points =
               (IF calc_position \in 1..Len(DefaultTable)
                THEN DefaultTable[calc_position] ELSE 0)
               + (IF /\ calc_has_fastest_lap
                     /\ calc_position # NULL
                     /\ calc_position <= 10
                  THEN 1 ELSE 0)
        /\ calc_position = NULL => calc_points = 0
        /\ calc_points >= 0

PointsTableAndBonusWitness ==
    /\ calc_points # NULL
    /\ calc_has_fastest_lap
    /\ calc_position = MaxPosition

\* C15: from one race round to the next the cumulative points, wins, podiums
\* and points finishes of every driver never decrease.
TotalsNeverDecrease ==
    \A R \in Rounds : (R + 1) \in Rounds =>
        \A e \in Snapshot(R) :
            \E f \in Snapshot(R + 1) :
                /\ f.driver_number = e.driver_number
                /\ f.points >= e.points
                /\ f.wins >= e.wins
                /\ f.podiums >= e.podiums
                /\ f.points_finishes >= e.points_finishes

TotalsNeverDecreaseWitness ==
    \E R \in Rounds : (R + 1) \in Rounds /\
        \E e \in Snapshot(R), f \in Snapshot(R + 1) :
            /\ f.driver_number = e.driver_number
            /\ e.wins > 0
            /\ f.points > e.points
            /\ f.wins = e.wins

\* C16: points_ahead_next of the driver at rank i is the points of that
\* driver minus the points of the driver at rank i + 1, is never negative
\* and is 0 for the driver in last place.
GapToNext ==
    \A R \in Rounds : \A a \in Snapshot(R) :
        /\ a.points_ahead_next >= 0
        /\ \A b \in Snapshot(R) :
               b.position = a.position + 1 => a.points_ahead_next = a.points - b.points
        /\ a.position = Cardinality(Snapshot(R)) => a.points_ahead_next = 0

GapToNextWitness ==
    \E R \in Rounds : \E a, b, c \in Snapshot(R) :
        /\ a.position = 1 /\ b.position = 2 /\ c.position = 3
        /\ a.points_ahead_next > 0
        /\ b.points_ahead_next > 0
        /\ c.points > 0

\* the races up to round R in which the results of driver d satisfy a
\* condition: a race gives a driver one result
WonUpTo(d, R) ==
    {r.date : r \in {x \in Log : /\ x.driver_number = d /\ x.date <= RaceDate(R)
                                  /\ x.final_position = 1}}

PodiumsUpTo(d, R) ==
    {r.date : r \in {x \in Log : /\ x.driver_number = d /\ x.date <= RaceDate(R)
                                  /\ x.final_position \in 1..PodiumPlaces}}

ScoredUpTo(d, R) ==
    {r.date : r \in {x \in Log : /\ x.driver_number = d /\ x.date <= RaceDate(R)
                                  /\ x.points > 0}}

\* C17: in the snapshot after race R the wins of a driver are the number of
\* the driver's results in races 1..R with final_position 1, the podiums the
\* number with final_position in 1..3 and the points finishes the number
\* with points > 0.
CountersMatchResults ==
    \A R \in Rounds : \A e \in Snapshot(R) :
        /\ e.wins = Cardinality(WonUpTo(e.driver_number, R))
        /\ e.podiums = Cardinality(PodiumsUpTo(e.driver_number, R))
        /\ e.points_finishes = Cardinality(ScoredUpTo(e.driver_number, R))

\* a classification row of the session names a driver who is not on the roster
UnknownDriver(session_key) ==
    \E r \in GetSessionResults(session_key) :
        r.driver_number \notin GetSessionDrivers(session_key)

\* the standings returned by the save hold a snapshot of the race of a
\* session or of a later race
SnapshotAtOrAfter(s) ==
    \E i \in 1..Len(standings_df'), j \in 1..Len(grand_prix_results') :
        /\ grand_prix_results'[j].grand_prix = standings_df'[i].after_race
        /\ grand_prix_results'[j].date >= s.race_date

\* C18: a race whose input violates data integrity (an unknown driver, a
\* duplicate position) is excluded and the standings do not advance past
\* it: a save produces no snapshot for that race or for a later race.
LedgerStopsAtBadRace ==
    [][n_saves' = n_saves + 1 =>
          \A s \in raw_sessions :
              (UnknownDriver(s.session_key) \/ DuplicatePositions(s.session_key))
                  => ~SnapshotAtOrAfter(s)]_vars

RoundsFromCalendar ==
    /\ \A g, h \in DOMAIN feature_round :
           g # h => feature_round[g] # feature_round[h]
    /\ \A g \in DOMAIN feature_round :
           feature_round[g] = GetRaceRound(py_hash, g)

\* the rows of one season in an analytics table (the key starts with the year)
SeasonResultRows(table, year) == SelectSeq(table, LAMBDA r : r.result_id[1] = year)
SeasonPerformanceRows(table, year) == SelectSeq(table, LAMBDA r : r.performance_id[1] = year)
SeasonStandingRows(table, year) == SelectSeq(table, LAMBDA r : r.standing_id[1] = year)

\* the frames of standings the season gives on a database that holds its
\* results only
StandingsAlone(table, year) ==
    {TransformChampionshipStandings(year, rs) :
        rs \in FetchOrders(SeasonResultRows(table, year), year)}

\* C21: seasons share no state.  A step of the call of one season leaves the
\* stored rows and the call of every other season as they were, and the
\* standings a call computes while calls of other seasons interleave are
\* standings of its own season processed alone.
SeasonsIsolated ==
    [][\A year \in Seasons :
          /\ season_pc'[year] = season_pc[year] =>
                /\ SeasonResultRows(grand_prix_results', year)
                       = SeasonResultRows(grand_prix_results, year)
                /\ SeasonPerformanceRows(grand_prix_performance', year)
                       = SeasonPerformanceRows(grand_prix_performance, year)
                /\ SeasonStandingRows(driver_championship_standings', year)
                       = SeasonStandingRows(driver_championship_standings, year)
                /\ season_results'[year] = season_results[year]
                /\ season_standings'[year] = season_standings[year]
          /\ (season_pc[year] = "standings" /\ season_pc'[year] = "returned"
                  /\ season_results[year]["grand_prix_results"]) =>
                /\ season_standings'[year] \in StandingsAlone(grand_prix_results, year)
                /\ \A i \in 1..Len(season_standings'[year]) :
                       season_standings'[year][i].year = year]_vars

\* the standings of 2024 were computed on a table that held results of 2023
\* before its own, while the call of 2023 is still under way
SeasonsIsolatedWitness ==
    /\ season_pc[2023] = "standings"
    /\ season_results[2023]["grand_prix_results"]
    /\ season_standings[2024] # <<>>
    /\ \E i, j \in 1..Len(grand_prix_results) :
           /\ i < j
           /\ grand_prix_results[i].year = 2023
           /\ grand_prix_results[j].year = 2024

\* C22: context enrichment is best-effort.  Whenever a lookup of the race
\* context finds nothing or raises, the record is still built and every
\* field the lookup would have filled is null.
MissingLookupsGiveNull ==
    \A i \in 1..Len(race_features) :
        /\ circuit_short_name \notin KnownTracks =>
               /\ race_features[i].circuit_length = NULL
               /\ race_features[i].number_of_turns = NULL
               /\ race_features[i].overtaking_difficulty = NULL
        /\ race_control.raises =>
               /\ race_features[i].safety_car_deployments = NULL
               /\ race_features[i].red_flag_periods = NULL
               /\ race_features[i].total_race_time = NULL
        /\ (weather.raises \/ weather.rows = <<>>) =>
               /\ race_features[i].weather_changes = NULL
               /\ race_features[i].rain_probability = NULL

\* the requests of the call and their number of failures
Requests == SelectSeq(http_log, LAMBDA e : e.kind = "get")
Sleeps == SelectSeq(http_log, LAMBDA e : e.kind = "sleep")
FailedRequests == SelectSeq(Requests, LAMBDA e : e.value = NULL)

\* C23: while every attempt fails the client never makes more than
\* max_retries + 1 requests and never returns; it raises exactly after
\* request number max_retries + 1, and returns no value.
ExhaustedRetriesRaise ==
    /\ Len(Requests) <= max_retries + 1
    /\ Len(FailedRequests) = Len(Requests) => request_state # "returned"
    /\ (Len(FailedRequests) = Len(Requests) /\ request_state # "raised")
           => Len(Requests) <= max_retries
    /\ request_state = "raised" =>
           /\ Len(Requests) = max_retries + 1
           /\ Len(FailedRequests) = max_retries + 1
           /\ response = NULL

\* every one of several attempts failed and the call raised
ExhaustedRetriesRaiseWitness ==
    /\ request_state = "raised"
    /\ max_retries = MaxRetries
    /\ Len(FailedRequests) = MaxRetries + 1

\* C24: when the first k attempts fail and attempt k+1 succeeds, the call
\* returns the body of that attempt after exactly k+1 requests and k+1
\* sleeps, one sleep before each request: rate_limit_delay before the first
\* and rate_limit_delay * 2^attempt before retry number attempt; the
\* successful request is the last one.
RetryThenSuccess ==
    /\ \A i \in 1..Len(http_log) :
           http_log[i].kind = (IF i % 2 = 1 THEN "sleep" ELSE "get")
    /\ \A n \in 1..Len(Sleeps) :
           Sleeps[n].value = IF n = 1 THEN rate_limit_delay
                             ELSE rate_limit_delay * Power(2, n - 1)
    /\ \A n \in 1..Len(Requests) :
           Requests[n].value # NULL => n = Len(Requests) /\ request_state = "returned"
    /\ request_state = "returned" =>
           LET k == Len(FailedRequests)
           IN  /\ k <= max_retries
               /\ Len(Requests) = k + 1
               /\ Len(Sleeps) = k + 1
               /\ response = Requests[k + 1].value
               /\ response # NULL

\* two attempts failed and the third gave the body returned
RetryThenSuccessWitness ==
    /\ request_state = "returned"
    /\ Len(FailedRequests) = 2
    /\ Len(Requests) = 3

\* the calls of the generator for the endpoints of the sessions
EndpointCalls ==
    SelectSeq(api_log, LAMBDA c : c.endpoint # "meetings" /\ c.endpoint # "sessions")

\* C25: get_all_data_for_year yields the meetings item first, the sessions
\* item second and the data of the sessions only afterwards; when the
\* meetings result is empty the generator stops after the meetings item:
\* it has yielded that item and nothing else, and it ends without raising.
MeetingsSessionsThenData ==
    /\ \A i \in 1..Len(yield_log) :
           /\ yield_log[i] = "meetings" <=> i = 1
           /\ yield_log[i] = "sessions" <=> i = 2
    /\ (api_log # <<>> /\ api_log[1].outcome \in {"empty_frame", "empty_list"}) =>
           /\ yield_log = <<"meetings">>
           /\ Len(api_log) = 1
           /\ gen_pc = "stopped"

\* C26: extract_year_data never raises.  When the source fails, at once or
\* later, and whenever the processing of a yielded item fails, errors is
\* incremented, and the call still returns the statistics.
ExtractNeverRaises ==
    /\ extract_pc \in {"running", "returned"}
    /\ gen_pc \in {"stopped", "raised"} <=> extract_pc = "returned"
    /\ stats.errors >= (Len(yield_log) - stats.endpoints_processed)
                         + (IF gen_pc = "raised" THEN 1 ELSE 0)
    /\ (Len(api_log) = 1 /\ api_log[1].outcome = "raises") =>
           /\ stats.errors > 0
           /\ extract_pc = "returned"

\* the source failed after the processing of an item had failed
ExtractNeverRaisesWitness ==
    /\ gen_pc = "raised"
    /\ extract_pc = "returned"
    /\ Len(yield_log) > stats.endpoints_processed
    /\ stats.errors >= 2

ConnectionLifecycle ==
    /\ conn_log = <<>> => connection = NULL
    /\ \A i \in 1..Len(conn_log) :
           /\ conn_log[i].op = "connect" => conn_log[i].value # NULL
           /\ (i < Len(conn_log) /\ conn_log[i].op = "connect"
                   /\ conn_log[i + 1].op = "connect")
                  => conn_log[i + 1].value = conn_log[i].value
           /\ (conn_log[i].op = "connect"
                   /\ (i = 1 \/ conn_log[i - 1].op = "close"))
                  => \A j \in 1..(i - 1) : conn_log[j].value # conn_log[i].value
    /\ conn_log # <<>> =>
           LET last == conn_log[Len(conn_log)]
           IN  IF last.op = "close" THEN connection = NULL
               ELSE connection # NULL /\ connection = last.value

\* two connects in a row, a close, and a connect again
ConnectionLifecycleWitness ==
    \E i \in 1..Len(conn_log) :
        /\ i + 3 <= Len(conn_log)
        /\ conn_log[i].op = "connect"
        /\ conn_log[i + 1].op = "connect"
        /\ conn_log[i + 2].op = "close"
        /\ conn_log[i + 3].op = "connect"

\* C28: in a save the standings are computed and inserted only when the
\* results of the same call were inserted.  When the results step gives
\* nothing or fails, driver_championship_standings is reported False and no
\* standings row is written; the dictionary returned has the three keys.
StandingsNeedResults ==
    [][n_saves' = n_saves + 1 =>
          /\ DOMAIN results' = AnalyticsTables
          /\ ~results'["grand_prix_results"] =>
                 /\ ~results'["driver_championship_standings"]
                 /\ driver_championship_standings' = driver_championship_standings
          /\ driver_championship_standings' # driver_championship_standings =>
                 /\ results'["grand_prix_results"]
                 /\ gp_df' # <<>>
                 /\ grand_prix_results' = grand_prix_results \o gp_df']_vars

\* a save whose results step returned an empty frame while results of
\* earlier races are stored: the standings were skipped
StandingsNeedResultsWitness ==
    /\ n_saves > 1
    /\ gp_df = <<>>
    /\ grand_prix_results # <<>>
    /\ ~results["grand_prix_results"]
    /\ ~results["driver_championship_standings"]
    /\ Len(driver_championship_standings) = Len(standings_df)
    /\ standings_df # <<>>

\* the races that have stored results, by their date
StoredRaceDates == {grand_prix_results[i].date : i \in 1..Len(grand_prix_results)}

\* C29: the rounds of the snapshots of a season are 1..N in the order of
\* the races, one per race, and the round of a snapshot is the round in the
\* result_id of the results of its race: (year, race_round, driver_number)
\* names the same race in the standings and in the results.
RoundsAgree ==
    /\ standings_df # <<>> =>
           /\ {standings_df[i].race_round : i \in 1..Len(standings_df)}
                  = 1..Cardinality(StoredRaceDates)
           /\ \A i, j \in 1..Len(standings_df) :
                  i < j => standings_df[i].race_round <= standings_df[j].race_round
    /\ \A i \in 1..Len(driver_championship_standings) :
           \A j \in 1..Len(grand_prix_results) :
               LET standing == driver_championship_standings[i]
                   result == grand_prix_results[j]
               IN  (result.year = standing.year
                        /\ result.grand_prix = standing.after_race)
                       => result.result_id[2] = standing.race_round

====
